---- MODULE Spec2Model ----
(***************************************************************************)
(* Model of src/strategies/marketmaker.js (ProtonProtocol/dex-bot): the    *)
(* grid price / quantity computation, the count-based reconciliation of    *)
(* open orders, and the per-pair loop of trade with its collaborators.     *)
(*                                                                         *)
(* Decimal values (bignumber.js BigNumber and the JS numbers converted to  *)
(* and from it) are records [k, m, d]: k = "num" is the finite value       *)
(* m * 10^-d kept normalised (no trailing zero digit, zero is m=0,d=0);    *)
(* k = "inf" is +/-Infinity (sign in m); k = "nan" is NaN.                 *)
(***************************************************************************)
EXTENDS Integers, Sequences, FiniteSets, Bags, TLC

VARIABLES
  pairs,          \* config marketmaker.pairs: sequence of [symbol, gridInterval, base]
  gridLevels,     \* config marketmaker.gridLevels
  mode,           \* which entry point is exercised: "grid" (pure functions) or "trade"
  \* ---- inputs and results of the grid functions -------------------------
  marketSymbol,   \* argument of createBuyOrder / createSellOrder / prepareOrders
  marketDetails,  \* argument: [highestBid, lowestAsk, market, price]
  openOrders,     \* argument of prepareOrders / local of trade: sequence of open orders
  call,           \* the last call made: [fn, index], fn = "none" before any call
  startPrice,     \* the local startPrice after the switch of the last create*Order call
  order,          \* result of the last createBuyOrder / createSellOrder call
  orders,         \* result of the last prepareOrders call
  \* ---- state of trade and of its collaborators --------------------------
  pc,             \* position of trade: "idle", "head", "openOrders", "marketDetails"
  i,              \* loop variable of trade (0-based as in the source)
  book,           \* the venue: resting orders of the account, market_id -> side -> count
  inflight,       \* bag of submitLimitOrder calls issued and not yet completed
  log,            \* logger calls of the current run: set of [pair, level, msg]
  issued,         \* orders handed to submitLimitOrder in the current run, per pair index
  unhandled,      \* failed submissions whose rejection no handler received
  ran             \* TRUE once trade has been started at least once

vars == <<pairs, gridLevels, mode, marketSymbol, marketDetails, openOrders, call,
          startPrice, order, orders, pc, i, book, inflight, log, issued,
          unhandled, ran>>

gridVars == <<marketSymbol, marketDetails, call, startPrice, order, orders>>
tradeVars == <<pc, i, book, inflight, log, issued, unhandled, ran>>

----------------------------------------------------------------------------
(* Bounds of the model *)
MaxGridLevels == 2
MaxOpen == 2
MaxIndex == 1
MaxInflight == 1
MaxUnhandled == 1

----------------------------------------------------------------------------
(* bignumber.js arithmetic, as used by the strategy *)

DECIMAL_PLACES == 20     \* bignumber.js default for division results
DoubleDigits == 15       \* decimal digits every IEEE double round-trips

RECURSIVE Pow10(_)
Pow10(n) == IF n <= 0 THEN 1 ELSE 10 * Pow10(n - 1)

RECURSIVE Log10(_)
Log10(n) == IF n < 10 THEN 0 ELSE 1 + Log10(n \div 10)

RECURSIVE Digits(_)
Digits(n) == IF n < 10 THEN 1 ELSE 1 + Digits(n \div 10)

Abs(n) == IF n < 0 THEN 0 - n ELSE n
Sign(n) == IF n < 0 THEN 0 - 1 ELSE 1
MaxOf(a, b) == IF a >= b THEN a ELSE b

NaN == [k |-> "nan", m |-> 0, d |-> 0]
Infinity(s) == [k |-> "inf", m |-> s, d |-> 0]

RECURSIVE Norm(_, _)
Norm(m, d) ==
  IF m = 0 THEN [k |-> "num", m |-> 0, d |-> 0]
  ELSE IF d > 0 /\ Abs(m) % 10 = 0 THEN Norm(Sign(m) * (Abs(m) \div 10), d - 1)
  ELSE [k |-> "num", m |-> m, d |-> d]

Dec(m, d) == Norm(m, d)

IsZero(x) == x.k = "num" /\ x.m = 0

\* x.plus(y)
Plus(x, y) ==
  IF x.k = "nan" \/ y.k = "nan" THEN NaN
  ELSE IF x.k = "inf" /\ y.k = "inf" THEN (IF x.m = y.m THEN x ELSE NaN)
  ELSE IF x.k = "inf" THEN x
  ELSE IF y.k = "inf" THEN y
  ELSE LET D == MaxOf(x.d, y.d)
       IN Norm(x.m * Pow10(D - x.d) + y.m * Pow10(D - y.d), D)

\* x.times(y)
Times(x, y) ==
  IF x.k = "nan" \/ y.k = "nan" THEN NaN
  ELSE IF x.k = "inf" \/ y.k = "inf"
       THEN (IF IsZero(x) \/ IsZero(y) THEN NaN
             ELSE Infinity(Sign(x.m) * Sign(y.m)))
  ELSE Norm(x.m * y.m, x.d + y.d)

\* x.dividedBy(2): the quotient has one more decimal place than x, which is
\* within DECIMAL_PLACES, so the division is exact
Halve(x) ==
  IF x.k # "num" THEN x
  ELSE IF x.d + 1 <= DECIMAL_PLACES THEN Norm(x.m * 5, x.d + 1)
  ELSE Norm(Sign(x.m) * ((Abs(x.m) * 5 + 5) \div 10), x.d)

\* x.decimalPlaces(dp, rm) and the value of x.toFixed(dp, rm):
\* rm = "DOWN" is BN.ROUND_DOWN (towards zero), "UP" is BN.ROUND_UP (away from zero)
RoundDP(x, dp, rm) ==
  IF x.k # "num" \/ x.d <= dp THEN x
  ELSE LET scale == Pow10(x.d - dp)
           q == Abs(x.m) \div scale
           r == Abs(x.m) % scale
           up == IF rm = "UP" /\ r > 0 THEN 1 ELSE 0
       IN Norm(Sign(x.m) * (q + up), dp)

RECURSIVE DivPow10(_, _)
DivPow10(n, e) == IF e <= 0 \/ n = 0 THEN n ELSE DivPow10(n \div 10, e - 1)

\* x.dividedBy(y).toFixed(dp, BN.ROUND_UP): the quotient is first rounded
\* half-up to DECIMAL_PLACES places, then rounded away from zero to dp places.
\* With N/Dn the quotient in units of 10^-dp, q its integer part and r the
\* remainder, the first rounding drops the fractional part exactly when
\* 0 < 2 * r * 10^(DECIMAL_PLACES - dp) < Dn.
DivToFixedUp(x, y, dp) ==
  IF x.k = "nan" \/ y.k = "nan" THEN NaN
  ELSE IF x.k = "inf" THEN (IF y.k = "inf" THEN NaN ELSE Infinity(x.m * Sign(y.m)))
  ELSE IF y.k = "inf" THEN Norm(0, 0)
  ELSE IF IsZero(y) THEN (IF IsZero(x) THEN NaN ELSE Infinity(Sign(x.m)))
  ELSE LET N == Abs(x.m) * Pow10(y.d + dp)
           Dn == Abs(y.m) * Pow10(x.d)
           q == N \div Dn
           r == N % Dn
           lost == r > 0 /\ dp < DECIMAL_PLACES
                   /\ DivPow10((Dn - 1) \div (2 * r), DECIMAL_PLACES - dp) >= 1
           up == IF r > 0 /\ ~lost THEN 1 ELSE 0
       IN Norm(Sign(x.m) * Sign(y.m) * (q + up), dp)

\* Conversion of a BigNumber to a JS number (unary plus, Math.max) and back
\* (new BN(number), times(number)): a decimal of at most DoubleDigits
\* significant digits survives the round trip; a longer one is rounded to the
\* nearest double, approximated here by DoubleDigits significant digits.
ToNumber(x) ==
  IF x.k # "num" \/ Digits(Abs(x.m)) <= DoubleDigits THEN x
  ELSE LET cut == Digits(Abs(x.m)) - DoubleDigits
           scale == Pow10(cut)
           q == (Abs(x.m) + scale \div 2) \div scale
       IN IF x.d >= cut THEN Norm(Sign(x.m) * q, x.d - cut)
          ELSE Norm(Sign(x.m) * q * Pow10(cut - x.d), 0)

\* order of two finite values
Lt(x, y) ==
  LET D == MaxOf(x.d, y.d)
  IN x.m * Pow10(D - x.d) < y.m * Pow10(D - y.d)
Le(x, y) == x = y \/ Lt(x, y)
IsFinite(x) == x.k = "num"

----------------------------------------------------------------------------
(* Collaborator data: dexrpc.ORDERSIDES and the markets dexapi knows *)

ORDERSIDES == [BUY |-> "BUY", SELL |-> "SELL"]

Token(p) == [precision |-> p, multiplier |-> Pow10(p)]

Market(id, bidPrecision, askPrecision, orderMin) ==
  [market_id |-> id, bid_token |-> Token(bidPrecision),
   ask_token |-> Token(askPrecision), order_min |-> orderMin]

undefined == [t |-> "undefined", v |-> "undefined"]
Str(s) == [t |-> "string", v |-> s]

\* new String(value): a fresh String object wrapping String(value)
NewString(x) == [t |-> "object", v |-> x.v]

\* x === y as the switch statement evaluates it: an object is identical only
\* to itself, so a fresh object never equals a primitive case label
StrictEquals(x, y) == x.t # "object" /\ y.t # "object" /\ x = y

----------------------------------------------------------------------------
(* The grid functions *)

\* number / number for a divisor that is a power of ten (a token multiplier)
DivNumber(n, multiplier) == Norm(n, Log10(multiplier))

getQuantityAndAdjustedTotal(price, totalCost, bidPrecision, askPrecision) ==
  LET quantity == ToNumber(DivToFixedUp(totalCost, price, bidPrecision))
      adjustedTotal == ToNumber(RoundDP(Times(price, quantity), askPrecision, "UP"))
  IN [adjustedTotal |-> adjustedTotal, quantity |-> quantity]

Matching(sym) == {key \in 1..Len(pairs) : pairs[key].symbol = sym}
LastOf(S) == CHOOSE key \in S : \A other \in S : other <= key

getGridInterval(sym) ==
  IF Matching(sym) = {} THEN Dec(1, 2) ELSE pairs[LastOf(Matching(sym))].gridInterval

getBase(sym) ==
  IF Matching(sym) = {} THEN Str("AVERAGE") ELSE pairs[LastOf(Matching(sym))].base

\* lines 86-106 and 134-154: the local startPrice after the switch
SwitchBase(base, details) ==
  LET lastSalePrice == details.price
      lowestAsk == details.lowestAsk
      highestBid == details.highestBid
      avgPrice == Halve(Plus(lowestAsk, highestBid))
  IN IF StrictEquals(base, Str("BID")) THEN highestBid
     ELSE IF StrictEquals(base, Str("ASK")) THEN lowestAsk
     ELSE IF StrictEquals(base, Str("LAST")) THEN lastSalePrice
     ELSE avgPrice

StartPriceOf(sym, details) == SwitchBase(NewString(getBase(sym)), details)

\* variant of buyPriceOf: the buy price rounded up instead of down
buyPriceOfRoundedUp(sym, details, index) ==
  LET askPrecision == details.market.ask_token.precision
      bigMinSpread == getGridInterval(sym)
  IN RoundDP(Times(Plus(Times(bigMinSpread, Dec(0 - (index + 1), 0)), Dec(1, 0)),
                   StartPriceOf(sym, details)),
             askPrecision, "UP")

buyPriceOf(sym, details, index) ==
  LET askPrecision == details.market.ask_token.precision
      bigMinSpread == getGridInterval(sym)
  IN RoundDP(Times(Plus(Times(bigMinSpread, Dec(0 - (index + 1), 0)), Dec(1, 0)),
                   StartPriceOf(sym, details)),
             askPrecision, "DOWN")

createBuyOrder(sym, details, index) ==
  LET market == details.market
      askPrecision == market.ask_token.precision
      bidPrecision == market.bid_token.precision
      minOrder == DivNumber(market.order_min, market.ask_token.multiplier)
      buyPrice == buyPriceOf(sym, details, index)
      qa == getQuantityAndAdjustedTotal(ToNumber(buyPrice), minOrder,
                                        bidPrecision, askPrecision)
  IN [orderSide |-> ORDERSIDES.BUY, price |-> ToNumber(buyPrice),
      quantity |-> qa.adjustedTotal, marketSymbol |-> sym]

sellPriceOf(sym, details, index) ==
  LET askPrecision == details.market.ask_token.precision
      bigMinSpread == getGridInterval(sym)
  IN RoundDP(Times(Plus(Times(bigMinSpread, Dec(0 + (index + 1), 0)), Dec(1, 0)),
                   ToNumber(StartPriceOf(sym, details))),
             askPrecision, "UP")

createSellOrder(sym, details, index) ==
  LET market == details.market
      askPrecision == market.ask_token.precision
      bidPrecision == market.bid_token.precision
      minOrder == DivNumber(market.order_min, market.ask_token.multiplier)
      sellPrice == sellPriceOf(sym, details, index)
      qa == getQuantityAndAdjustedTotal(ToNumber(sellPrice), minOrder,
                                        bidPrecision, askPrecision)
  IN [orderSide |-> ORDERSIDES.SELL, price |-> ToNumber(sellPrice),
      quantity |-> qa.quantity, marketSymbol |-> sym]

CountSide(list, side) == Cardinality({n \in 1..Len(list) : list[n].order_side = side})

\* variant of BuyGuard: off-by-one loop guard
BuyGuardOffByOne(numBuys) == numBuys <= gridLevels

BuyGuard(numBuys) == numBuys < gridLevels
SellGuard(numSells) == numSells < gridLevels

RECURSIVE PrepareLoop(_, _, _, _, _, _)
PrepareLoop(sym, details, index, numBuys, numSells, acc) ==
  IF ~(index < gridLevels) THEN acc
  ELSE LET withBuy == IF BuyGuard(numBuys)
                      THEN Append(acc, createBuyOrder(sym, details, index)) ELSE acc
           nb == IF BuyGuard(numBuys) THEN numBuys + 1 ELSE numBuys
           withSell == IF SellGuard(numSells)
                       THEN Append(withBuy, createSellOrder(sym, details, index))
                       ELSE withBuy
           ns == IF SellGuard(numSells) THEN numSells + 1 ELSE numSells
       IN PrepareLoop(sym, details, index + 1, nb, ns, withSell)

prepareOrders(sym, details, open) ==
  PrepareLoop(sym, details, 0, CountSide(open, ORDERSIDES.BUY),
              CountSide(open, ORDERSIDES.SELL), <<>>)

----------------------------------------------------------------------------
(* Input domains *)

Prices == {Dec(1, 2), Dec(1, 0), Dec(102, 2)}
LastPrices == {Dec(1, 2), Dec(102, 2)}
Intervals == {Dec(1, 2), Dec(1, 1), Dec(5, 1)}
Bases == {Str("BID"), Str("ASK"), Str("LAST"), Str("AVERAGE"), undefined}

\* markets of dexapi: ask precision 2, 0 and 6
GridMarkets ==
  {Market(1, 1, 2, 100), Market(2, 0, 0, 1), Market(3, 2, 6, 500000)}

OpenOrdersOf(id, b, s) ==
  [n \in 1..(b + s) |->
     [order_side |-> IF n <= b THEN ORDERSIDES.BUY ELSE ORDERSIDES.SELL,
      market_id |-> id]]

NoOrder == [orderSide |-> "none", price |-> NaN, quantity |-> NaN, marketSymbol |-> ""]
NoCall == [fn |-> "none", index |-> 0]

TradeIdle ==
  /\ pc = "idle" /\ i = 0 /\ book = <<>> /\ inflight = EmptyBag
  /\ log = {} /\ issued = <<>> /\ unhandled = 0 /\ ran = FALSE

----------------------------------------------------------------------------
(* Specification of the grid functions: the arguments are drawn by InitGrid, *)
(* every action is one call                                                  *)

InitGrid ==
  /\ mode = "grid"
  /\ gridLevels \in 1..MaxGridLevels
  /\ \E interval \in Intervals, base \in Bases :
       pairs = <<[symbol |-> "XPR_XMD", gridInterval |-> interval, base |-> base]>>
  /\ marketSymbol = "XPR_XMD"
  /\ \E market \in GridMarkets, bid \in Prices, ask \in Prices, last \in LastPrices :
       /\ Le(bid, ask)
       /\ marketDetails = [highestBid |-> bid, lowestAsk |-> ask,
                           market |-> market, price |-> last]
       /\ \E b \in 0..MaxOpen, s \in 0..MaxOpen :
            openOrders = OpenOrdersOf(market.market_id, b, s)
  /\ call = NoCall /\ startPrice = NaN /\ order = NoOrder /\ orders = <<>>
  /\ TradeIdle

CallCreateBuyOrder ==
  /\ mode = "grid"
  /\ \E index \in 0..MaxIndex :
       /\ call' = [fn |-> "createBuyOrder", index |-> index]
       /\ startPrice' = StartPriceOf(marketSymbol, marketDetails)
       /\ order' = createBuyOrder(marketSymbol, marketDetails, index)
  /\ orders' = <<>>
  /\ UNCHANGED <<pairs, gridLevels, mode, marketSymbol, marketDetails, openOrders>>
  /\ UNCHANGED tradeVars

CallCreateSellOrder ==
  /\ mode = "grid"
  /\ \E index \in 0..MaxIndex :
       /\ call' = [fn |-> "createSellOrder", index |-> index]
       /\ startPrice' = StartPriceOf(marketSymbol, marketDetails)
       /\ order' = createSellOrder(marketSymbol, marketDetails, index)
  /\ orders' = <<>>
  /\ UNCHANGED <<pairs, gridLevels, mode, marketSymbol, marketDetails, openOrders>>
  /\ UNCHANGED tradeVars

CallPrepareOrders ==
  /\ mode = "grid"
  /\ call' = [fn |-> "prepareOrders", index |-> 0]
  /\ orders' = prepareOrders(marketSymbol, marketDetails, openOrders)
  /\ startPrice' = NaN /\ order' = NoOrder
  /\ UNCHANGED <<pairs, gridLevels, mode, marketSymbol, marketDetails, openOrders>>
  /\ UNCHANGED tradeVars

NextGrid == CallCreateBuyOrder \/ CallCreateSellOrder \/ CallPrepareOrders

SpecGrid == InitGrid /\ [][NextGrid]_vars

----------------------------------------------------------------------------
(* Collaborators of trade: dexapi and dexrpc *)

Symbols == {"XPR_XMD", "XBTC_XMD", "FOO_BAR"}

\* the markets dexapi knows; FOO_BAR is not listed
Markets == [s \in {"XPR_XMD", "XBTC_XMD"} |->
              IF s = "XPR_XMD" THEN Market(1, 1, 2, 100) ELSE Market(2, 2, 6, 500000)]
MarketIds == {Markets[s].market_id : s \in DOMAIN Markets}

getMarketBySymbol(sym) == IF sym \in DOMAIN Markets THEN Markets[sym] ELSE undefined

fetchLatestPrice(sym) == IF sym = "XPR_XMD" THEN Dec(1, 0) ELSE Dec(102, 2)

\* depth-1 order book: XPR_XMD has both sides, the other books are empty
fetchOrderBook(sym) ==
  IF sym = "XPR_XMD"
  THEN [bids |-> <<[level |-> Dec(1, 0)]>>, asks |-> <<[level |-> Dec(102, 2)]>>]
  ELSE [bids |-> <<>>, asks |-> <<>>]

PairConfig(sym) ==
  [symbol |-> sym,
   gridInterval |-> IF sym = "XPR_XMD" THEN Dec(1, 2) ELSE Dec(1, 1),
   base |-> IF sym = "XPR_XMD" THEN Str("BID") ELSE undefined]

\* fetchOpenOrders(username): every resting order of the account
fetchOpenOrders(b) ==
  OpenOrdersOf(1, b[1][ORDERSIDES.BUY], b[1][ORDERSIDES.SELL])
    \o OpenOrdersOf(2, b[2][ORDERSIDES.BUY], b[2][ORDERSIDES.SELL])

getMarketDetails(sym) ==
  LET market == getMarketBySymbol(sym)
      price == fetchLatestPrice(sym)
      orderBook == fetchOrderBook(sym)
      lowestAsk == IF Len(orderBook.asks) > 0 THEN orderBook.asks[1].level ELSE price
      highestBid == IF Len(orderBook.bids) > 0 THEN orderBook.bids[1].level ELSE price
  IN [highestBid |-> highestBid, lowestAsk |-> lowestAsk,
      market |-> market, price |-> price]

\* lines 35-39 of getOpenOrders, after the market was found
getOpenOrders(sym, allOrders) ==
  LET market == getMarketBySymbol(sym)
  IN SelectSeq(allOrders, LAMBDA o : o.market_id = market.market_id)

RECURSIVE SeqToBag(_)
SeqToBag(list) ==
  IF list = <<>> THEN EmptyBag ELSE SetToBag({Head(list)}) (+) SeqToBag(Tail(list))

\* placeOrders: forEach starts one submitLimitOrder call per order and drops
\* the promise of each callback; the result is the bag of calls now in flight
placeOrders(list) == IF Len(list) = 0 THEN EmptyBag ELSE SeqToBag(list)

Entry(pair, level, msg) == [pair |-> pair, level |-> level, msg |-> msg]

----------------------------------------------------------------------------
(* Specification of trade *)

\* the configured pairs: the three symbols in any order
Configs ==
  {cfg \in {<<PairConfig(a), PairConfig(b), PairConfig(c)>> : a, b, c \in Symbols} :
     Cardinality({cfg[k].symbol : k \in 1..3}) = 3}

Init ==
  /\ mode = "trade"
  /\ gridLevels \in 1..MaxGridLevels
  /\ pairs \in Configs
  /\ book \in [MarketIds -> [{ORDERSIDES.BUY, ORDERSIDES.SELL} -> 0..gridLevels]]
  /\ pc = "idle" /\ i = 0 /\ inflight = EmptyBag /\ log = {}
  /\ issued = [k \in 1..3 |-> 0] /\ unhandled = 0 /\ ran = FALSE
  /\ openOrders = <<>>
  /\ marketSymbol = "" /\ marketDetails = NaN
  /\ call = NoCall /\ startPrice = NaN /\ order = NoOrder /\ orders = <<>>

config == <<pairs, gridLevels, mode>>

\* the scheduler calls trade
StartTrade ==
  /\ mode = "trade" /\ pc = "idle"
  /\ BagCardinality(inflight) <= MaxInflight
  /\ pc' = "head" /\ i' = 0 /\ ran' = TRUE
  /\ log' = {} /\ issued' = [k \in 1..Len(pairs) |-> 0]
  /\ openOrders' = <<>>
  /\ UNCHANGED <<config, gridVars, book, inflight, unhandled>>

\* lines 212-217 and 30-34: loop test, info log, market lookup; an unknown
\* market throws and the catch of lines 230-232 logs it
PairBegin ==
  /\ mode = "trade" /\ pc = "head" /\ i < Len(pairs)
  /\ LET sym == pairs[i + 1].symbol
         executing == Entry(i, "info", "Executing")
     IN IF getMarketBySymbol(sym) = undefined
        THEN /\ log' = log \cup {executing, Entry(i, "error", "Market does not exist")}
             /\ i' = i + 1 /\ pc' = "head"
        ELSE /\ log' = log \cup {executing}
             /\ i' = i /\ pc' = "openOrders"
  /\ UNCHANGED <<config, gridVars, openOrders, book, inflight, issued, unhandled, ran>>

\* line 212: the loop test fails, trade returns
TradeReturn ==
  /\ mode = "trade" /\ pc = "head" /\ ~(i < Len(pairs))
  /\ pc' = "idle"
  /\ UNCHANGED <<config, gridVars, openOrders, i, book, inflight, log, issued,
                 unhandled, ran>>

\* lines 35-39 and 220-225: fetchOpenOrders resolves
OpenOrdersFetched ==
  /\ mode = "trade" /\ pc = "openOrders"
  /\ LET sym == pairs[i + 1].symbol
         fetched == getOpenOrders(sym, fetchOpenOrders(book))
         buys == CountSide(fetched, ORDERSIDES.BUY)
         sells == CountSide(fetched, ORDERSIDES.SELL)
     IN /\ openOrders' = fetched
        /\ IF buys >= gridLevels /\ sells >= gridLevels
           THEN /\ log' = log \cup {Entry(i, "info", "nothing to do")}
                /\ pc' = "idle"
           ELSE /\ log' = log
                /\ pc' = "marketDetails"
  /\ UNCHANGED <<config, gridVars, i, book, inflight, issued, unhandled, ran>>

\* fetchOpenOrders or a fetch of getMarketDetails rejects: lines 230-232
FetchFails ==
  /\ mode = "trade" /\ pc \in {"openOrders", "marketDetails"}
  /\ log' = log \cup {Entry(i, "error", "fetch failed")}
  /\ i' = i + 1 /\ pc' = "head"
  /\ UNCHANGED <<config, gridVars, openOrders, book, inflight, issued, unhandled, ran>>

\* lines 227-229: the fetches of getMarketDetails resolve, the orders are
\* prepared and handed to submitLimitOrder; placeOrders resolves at once
OrdersPlaced ==
  /\ mode = "trade" /\ pc = "marketDetails"
  /\ LET sym == pairs[i + 1].symbol
         preparedOrders == prepareOrders(sym, getMarketDetails(sym), openOrders)
     IN /\ inflight' = inflight (+) placeOrders(preparedOrders)
        /\ issued' = [issued EXCEPT ![i + 1] = Len(preparedOrders)]
  /\ i' = i + 1 /\ pc' = "head"
  /\ UNCHANGED <<config, gridVars, openOrders, book, log, unhandled, ran>>

\* a submitLimitOrder call resolves: the order rests on the book
SubmitSucceeds ==
  /\ mode = "trade"
  /\ \E o \in BagToSet(inflight) :
       LET id == getMarketBySymbol(o.marketSymbol).market_id
       IN /\ inflight' = inflight (-) SetToBag({o})
          /\ book' = [book EXCEPT ![id][o.orderSide] = @ + 1]
  /\ UNCHANGED <<config, gridVars, openOrders, pc, i, log, issued, unhandled, ran>>

\* a submitLimitOrder call rejects: the promise of the forEach callback has
\* no handler, the rejection reaches neither the catch of trade nor the logger
SubmitFails ==
  /\ mode = "trade" /\ unhandled < MaxUnhandled
  /\ \E o \in BagToSet(inflight) : inflight' = inflight (-) SetToBag({o})
  /\ unhandled' = unhandled + 1
  /\ UNCHANGED <<config, gridVars, openOrders, pc, i, book, log, issued, ran>>

Next ==
  \/ StartTrade \/ PairBegin \/ TradeReturn \/ OpenOrdersFetched \/ FetchFails
  \/ OrdersPlaced \/ SubmitSucceeds \/ SubmitFails

Spec == Init /\ [][Next]_vars

\* Repeated runs in which every collaborator call of a known market succeeds:
\* the event loop runs every ready step of trade, and every submission in
\* flight eventually completes.
TradeStep == StartTrade \/ PairBegin \/ TradeReturn \/ OpenOrdersFetched \/ OrdersPlaced

NextFair == TradeStep \/ SubmitSucceeds

\* a step of trade seen through its position only: within NextFair the steps
\* that leave "marketDetails" are exactly the OrdersPlaced steps, which are
\* enabled whenever trade is at that position
TradeAdvances ==
  \/ StartTrade \/ PairBegin \/ TradeReturn \/ OpenOrdersFetched
  \/ (mode = "trade" /\ pc = "marketDetails" /\ pc' = "head" /\ i' = i + 1)

FairSpec ==
  Init /\ [][NextFair]_vars /\ WF_<<pc, i>>(TradeAdvances) /\ WF_vars(SubmitSucceeds)

----------------------------------------------------------------------------
(* Properties *)

Executing(k) == Entry(k - 1, "info", "Executing") \in log
RunOver == mode = "trade" /\ pc = "idle" /\ ran
Unknown(k) == getMarketBySymbol(pairs[k].symbol) = undefined
NothingToDo(k) == Entry(k - 1, "info", "nothing to do") \in log

\* C1: when a run of trade is over, every configured pair whose symbol
\* resolves to no market has an error logged, had no order submitted, and
\* every pair after it in the configured order was processed in that run.
C1_UnknownMarketIsolated ==
  RunOver =>
    \A k \in 1..Len(pairs) :
      Unknown(k) =>
        /\ Entry(k - 1, "error", "Market does not exist") \in log
        /\ issued[k] = 0
        /\ \A j \in (k + 1)..Len(pairs) : Executing(j)

\* C2: when a run of trade is over, a pair that was found to have enough
\* orders on both sides (the no-op message was logged for it) had no order
\* submitted, and every pair after it was processed in that run.
C2_FullPairOnlySkipped ==
  RunOver =>
    \A k \in 1..Len(pairs) :
      NothingToDo(k) =>
        /\ issued[k] = 0
        /\ \A j \in (k + 1)..Len(pairs) : Executing(j)

ClaimedReference(base, details) ==
  IF base.v = "BID" THEN details.highestBid
  ELSE IF base.v = "ASK" THEN details.lowestAsk
  ELSE IF base.v = "LAST" THEN details.price
  ELSE Halve(Plus(details.highestBid, details.lowestAsk))

\* C3: the reference price used by createBuyOrder and createSellOrder is
\* highestBid for base BID, lowestAsk for ASK, the last price for LAST and
\* (highestBid + lowestAsk) / 2 for any other or absent base.
C3_ReferenceFollowsBase ==
  call.fn \in {"createBuyOrder", "createSellOrder"} =>
    startPrice = ClaimedReference(getBase(marketSymbol), marketDetails)

BuysOf(list) == SelectSeq(list, LAMBDA o : o.orderSide = ORDERSIDES.BUY)
SellsOf(list) == SelectSeq(list, LAMBDA o : o.orderSide = ORDERSIDES.SELL)
Missing(n) == IF gridLevels - n > 0 THEN gridLevels - n ELSE 0
Prepared == call.fn = "prepareOrders"

\* C4: with b open buys and s open sells prepareOrders emits exactly
\* max(0, gridLevels - b) buy orders and max(0, gridLevels - s) sell orders,
\* each side built at ladder indices 0, 1, 2, ... in that order; so never
\* more than gridLevels per side, and none when both counts reach gridLevels.
C4_PrepareOrdersCounts ==
  Prepared =>
    LET b == CountSide(openOrders, ORDERSIDES.BUY)
        s == CountSide(openOrders, ORDERSIDES.SELL)
        buys == BuysOf(orders)
        sells == SellsOf(orders)
    IN /\ Len(buys) = Missing(b) /\ Len(sells) = Missing(s)
       /\ Len(buys) + Len(sells) = Len(orders)
       /\ \A n \in 1..Len(buys) :
            buys[n] = createBuyOrder(marketSymbol, marketDetails, n - 1)
       /\ \A n \in 1..Len(sells) :
            sells[n] = createSellOrder(marketSymbol, marketDetails, n - 1)
       /\ Len(buys) <= gridLevels /\ Len(sells) <= gridLevels
       /\ (b >= gridLevels /\ s >= gridLevels => orders = <<>>)

\* witness of C4: scenario C, one side already full and the other part filled
C4_Witness ==
  /\ Prepared
  /\ CountSide(openOrders, ORDERSIDES.BUY) >= gridLevels
  /\ CountSide(openOrders, ORDERSIDES.SELL) = 1
  /\ gridLevels >= 2
  /\ Len(orders) = gridLevels - 1

\* C5 as stated: along the prepared ladder, for indices i < j,
\* buyPrice(j) < buyPrice(i) <= reference <= sellPrice(i) < sellPrice(j).
C5_StrictLadder ==
  Prepared =>
    LET ref == StartPriceOf(marketSymbol, marketDetails)
        buys == BuysOf(orders)
        sells == SellsOf(orders)
    IN /\ \A n \in 1..Len(buys) : Le(buys[n].price, ref)
       /\ \A n \in 1..Len(sells) : Le(ref, sells[n].price)
       /\ \A n \in 1..Len(buys), o \in 1..Len(buys) :
            n < o => Lt(buys[o].price, buys[n].price)
       /\ \A n \in 1..Len(sells), o \in 1..Len(sells) :
            n < o => Lt(sells[n].price, sells[o].price)

\* C5 amended: along the prepared ladder, for indices i < j,
\* buyPrice(j) <= buyPrice(i) <= reference <= sellPrice(i) <= sellPrice(j):
\* rounding to the ask precision can make neighbouring levels equal.
C5_MonotoneLadder ==
  Prepared =>
    LET ref == StartPriceOf(marketSymbol, marketDetails)
        buys == BuysOf(orders)
        sells == SellsOf(orders)
    IN /\ \A n \in 1..Len(buys) : Le(buys[n].price, ref)
       /\ \A n \in 1..Len(sells) : Le(ref, sells[n].price)
       /\ \A n \in 1..Len(buys), o \in 1..Len(buys) :
            n < o => Le(buys[o].price, buys[n].price)
       /\ \A n \in 1..Len(sells), o \in 1..Len(sells) :
            n < o => Le(sells[n].price, sells[o].price)

\* witness of C5: a ladder of two levels per side whose two sell levels fall on
\* the same rounded price, above the reference
C5_Witness ==
  /\ Prepared
  /\ Len(BuysOf(orders)) >= 2 /\ Len(SellsOf(orders)) >= 2
  /\ SellsOf(orders)[1].price = SellsOf(orders)[2].price
  /\ Lt(StartPriceOf(marketSymbol, marketDetails), SellsOf(orders)[1].price)

MinOrderCost == DivNumber(marketDetails.market.order_min,
                          marketDetails.market.ask_token.multiplier)

\* C9: the notional of every built order is at least the minimum order cost:
\* price * quantity for a sell; for a buy the submitted size, which is also
\* finite and has at most ask-precision decimal places.
C9_NotionalAtLeastMinimum ==
  /\ call.fn = "createSellOrder" =>
       /\ IsFinite(order.price) /\ IsFinite(order.quantity)
       /\ Le(MinOrderCost, Times(order.price, order.quantity))
  /\ call.fn = "createBuyOrder" =>
       /\ IsFinite(order.quantity)
       /\ order.quantity.d <= marketDetails.market.ask_token.precision
       /\ Le(MinOrderCost, order.quantity)

Full(id) ==
  /\ book[id][ORDERSIDES.BUY] >= gridLevels
  /\ book[id][ORDERSIDES.SELL] >= gridLevels

\* C6: under repeated fair runs every configured pair with a known market
\* eventually rests at least gridLevels buys and gridLevels sells.
C6_EveryPairFilled ==
  \A id \in MarketIds : <>(mode = "trade" /\ Full(id))

\* C7: whenever trade is between two pairs or has returned, every submission
\* it issued has completed.
C7_SubmissionsAwaited ==
  (mode = "trade" /\ pc \in {"head", "idle"}) => inflight = EmptyBag

\* C8: a failing submission is caught and logged by the error boundary of
\* its pair and never ends as an unhandled rejection.
C8_SubmissionFailureCaught ==
  [][(BagCardinality(inflight') < BagCardinality(inflight) /\ book' = book) =>
       /\ unhandled' = unhandled
       /\ \E e \in log' \ log : e.level = "error"]_vars

\* C10: no side of any market ever rests more than gridLevels orders.
C10_NeverAboveGridLevels ==
  \A id \in DOMAIN book :
    /\ book[id][ORDERSIDES.BUY] <= gridLevels
    /\ book[id][ORDERSIDES.SELL] <= gridLevels

====
